---- MODULE Spec2Model ----
(***************************************************************************)
(* Model of backend/main.py: a CRUD API over per-language audio records,   *)
(* served from a MongoDB collection (the primary store) with a process-    *)
(* local dict (fallback_audio_data) used when the collection is not        *)
(* connected or one of its calls raises.                                   *)
(*                                                                         *)
(* Strings that the code compares or concatenates (language, id) are       *)
(* sequences of character codes, so that sorting and the id derivation are *)
(* computed and not assumed.  The collection is a set of documents; the    *)
(* dict is a function whose DOMAIN is its key set.  The guard              *)
(* "db_connected and collection" is read as "db_connected and collection   *)
(* has been assigned".                                                     *)
(***************************************************************************)
EXTENDS Integers, Sequences, FiniteSets, TLC

VARIABLES
    phase,                \* "loaded" (module imported), "running" (startup done), "stopped"
    probe,                \* outcome of connect_to_mongo during startup (environment)
    client,               \* global client: "None" or "client"
    collection,           \* global collection: "None" or "audio_files"
    db_connected,         \* global db_connected
    primary,              \* documents of the audio_files collection in MongoDB
    fallback_audio_data,  \* global fallback_audio_data (dict language -> item)
    last,                 \* the latest request handled to completion and its response
    requests,             \* number of requests handled to completion so far
    tasks                 \* requests in flight (interleaved executions)

vars == <<phase, probe, client, collection, db_connected, primary,
          fallback_audio_data, last, requests, tasks>>

-----------------------------------------------------------------------------
(* Bounds *)

\* Requests handled one after the other in one run of the process.
MaxRequests == 3
\* Requests in flight at the same time.
NumTasks == 2

-----------------------------------------------------------------------------
(* Strings as sequences of character codes *)

arabic == <<97, 114, 97, 98, 105, 99>>
english == <<101, 110, 103, 108, 105, 115, 104>>
french == <<102, 114, 101, 110, 99, 104>>

\* the "_audio" of f"{audio_file.language}_audio"
AudioSuffix == <<95, 97, 117, 100, 105, 111>>

\* Values the language parameter of a request ranges over: the two seeded
\* languages and one that is not seeded.
Languages == {arabic, english, french}

\* Values the language field of the body of an update request ranges over
\* (for every path language one of them differs from it).
BodyLanguages == {arabic, french}

\* Values the (audio_url, text_content) part of a request body ranges over.
Payloads == {[audio_url |-> "u", text_content |-> "t"],
             [audio_url |-> "u2", text_content |-> "t2"]}

\* AudioFileCreate: the body of a create or update request.
RequestBody(language, payload) ==
    [language |-> language, audio_url |-> payload.audio_url,
     text_content |-> payload.text_content]

\* The body of a request that has none.
NoPayload == [language |-> <<>>, audio_url |-> "", text_content |-> ""]

\* Python's str comparison a < b: lexicographic by code point.
RECURSIVE StrLess(_, _)
StrLess(a, b) ==
    IF b = <<>> THEN FALSE
    ELSE IF a = <<>> THEN TRUE
    ELSE IF Head(a) # Head(b) THEN Head(a) < Head(b)
    ELSE StrLess(Tail(a), Tail(b))

-----------------------------------------------------------------------------
(* Data *)

SAMPLE_AUDIO_DATA ==
    << [id |-> <<101, 110, 103, 108, 105, 115, 104, 95, 97, 117, 100, 105, 111>>,
        language |-> english,
        audio_url |-> "https://www.soundjay.com/misc/sounds/bell-ringing-05.wav",
        text_content |-> "In the ancient land of Eldoria, ..."],
       [id |-> <<97, 114, 97, 98, 105, 99, 95, 97, 117, 100, 105, 111>>,
        language |-> arabic,
        audio_url |-> "https://www.soundjay.com/misc/sounds/bell-ringing-04.wav",
        text_content |-> "(the same passage in Arabic)"] >>

\* AudioFile(id=..., language=..., audio_url=..., text_content=...)
AudioFile(d) ==
    [id |-> d.id, language |-> d.language,
     audio_url |-> d.audio_url, text_content |-> d.text_content]

\* The document built on the primary path of create_audio_file.
NewDocument(language, payload) ==
    [id |-> language \o AudioSuffix, language |-> language,
     audio_url |-> payload.audio_url, text_content |-> payload.text_content]

\* (variant: the id is the language, without the suffix)
NewFallbackDocument_plain_id(language, payload) ==
    [id |-> language, language |-> language,
     audio_url |-> payload.audio_url, text_content |-> payload.text_content]

\* The document built on the fallback path of create_audio_file.
NewFallbackDocument(language, payload) ==
    [id |-> language \o AudioSuffix, language |-> language,
     audio_url |-> payload.audio_url, text_content |-> payload.text_content]

-----------------------------------------------------------------------------
(* The collection: the calls the handlers make on it *)

\* collection.find_one({"language": language}): the matching documents
\* (none, or the one the unique index allows).
find_one(coll, language) == {d \in coll : d.language = language}

\* insert_one under the unique index on language: TRUE when it would raise
\* DuplicateKeyError.
DuplicateKey(coll, language) == find_one(coll, language) # {}

\* (variant: the document never reaches the collection)
insert_one_dropped(coll, document) == coll

insert_one(coll, document) == coll \cup {document}

\* update_one({"language": language}, {"$set": update_data})
matched_count(coll, language) == IF find_one(coll, language) = {} THEN 0 ELSE 1

\* (variant: the whole request body is $set, its language field included)
update_one_whole_body(coll, language, update_data) ==
    IF find_one(coll, language) = {} THEN coll
    ELSE LET d == CHOOSE x \in find_one(coll, language) : TRUE
         IN (coll \ {d}) \cup
            {[d EXCEPT !.language = update_data.language,
                       !.audio_url = update_data.audio_url,
                       !.text_content = update_data.text_content]}

update_one(coll, language, update_data) ==
    IF find_one(coll, language) = {} THEN coll
    ELSE LET d == CHOOSE x \in find_one(coll, language) : TRUE
         IN (coll \ {d}) \cup
            {[d EXCEPT !.audio_url = update_data.audio_url,
                       !.text_content = update_data.text_content]}

\* delete_one({"language": language})
deleted_count(coll, language) == IF find_one(coll, language) = {} THEN 0 ELSE 1

delete_one(coll, language) ==
    IF find_one(coll, language) = {} THEN coll
    ELSE coll \ {CHOOSE x \in find_one(coll, language) : TRUE}

\* collection.find({}).sort("language", 1): repeatedly the least remaining language.
RECURSIVE find_sorted(_)
find_sorted(coll) ==
    IF coll = {} THEN <<>>
    ELSE LET m == CHOOSE d \in coll : \A e \in coll : ~StrLess(e.language, d.language)
         IN <<m>> \o find_sorted(coll \ {m})

-----------------------------------------------------------------------------
(* The dict fallback_audio_data *)

DictSet(d, k, v) == (k :> v) @@ d

DictDel(d, k) == [x \in (DOMAIN d) \ {k} |-> d[x]]

\* item.update({"audio_url": ..., "text_content": ...})
DictUpdateItem(d, k, payload) ==
    [d EXCEPT ![k] = [@ EXCEPT !.audio_url = payload.audio_url,
                               !.text_content = payload.text_content]]

\* The orders in which fallback_audio_data.values() may yield the items
\* (insertion order of the dict, which the model does not track).
RECURSIVE Orderings(_)
Orderings(S) ==
    IF S = {} THEN {<<>>}
    ELSE UNION {{<<x>> \o s : s \in Orderings(S \ {x})} : x \in S}

\* sorted(audio_files, key=lambda x: x.language): stable insertion of each
\* element after the elements whose key is not greater.
RECURSIVE InsertSorted(_, _)
InsertSorted(s, x) ==
    IF s = <<>> THEN <<x>>
    ELSE IF StrLess(x.language, Head(s).language) THEN <<x>> \o s
    ELSE <<Head(s)>> \o InsertSorted(Tail(s), x)

\* (variant: the items are returned in the order of the dict)
sorted_unsorted(s) == s

RECURSIVE sorted(_)
sorted(s) ==
    IF s = <<>> THEN <<>>
    ELSE InsertSorted(sorted(SubSeq(s, 1, Len(s) - 1)), s[Len(s)])

\* The loop that appends AudioFile(...) of each document or item to audio_files.
AudioFiles(s) == [i \in 1..Len(s) |-> AudioFile(s[i])]

-----------------------------------------------------------------------------
(* Startup and shutdown *)

\* What the environment lets connect_to_mongo do.
ProbeOutcomes == {"no_url", "client_error", "ping_error", "ping_timeout", "index_error", "ok"}

\* (variant: the handler of a create_index error does not reset db_connected)
connect_to_mongo_no_reset(outcome) ==
    IF outcome = "no_url" THEN
        [client |-> client, collection |-> collection,
         db_connected |-> db_connected, returns |-> FALSE]
    ELSE IF outcome = "client_error" THEN
        [client |-> client, collection |-> collection,
         db_connected |-> FALSE, returns |-> FALSE]
    ELSE IF outcome \in {"ping_error", "ping_timeout"} THEN
        [client |-> "client", collection |-> collection,
         db_connected |-> FALSE, returns |-> FALSE]
    ELSE IF outcome = "index_error" THEN
        [client |-> "client", collection |-> "audio_files",
         db_connected |-> TRUE, returns |-> FALSE]
    ELSE
        [client |-> "client", collection |-> "audio_files",
         db_connected |-> TRUE, returns |-> TRUE]

\* connect_to_mongo: the globals it leaves and the value it returns.
connect_to_mongo(outcome) ==
    IF outcome = "no_url" THEN
        [client |-> client, collection |-> collection,
         db_connected |-> db_connected, returns |-> FALSE]
    ELSE IF outcome = "client_error" THEN
        [client |-> client, collection |-> collection,
         db_connected |-> FALSE, returns |-> FALSE]
    ELSE IF outcome \in {"ping_error", "ping_timeout"} THEN
        [client |-> "client", collection |-> collection,
         db_connected |-> FALSE, returns |-> FALSE]
    ELSE IF outcome = "index_error" THEN
        \* collection and db_connected = True were assigned before create_index raised
        [client |-> "client", collection |-> "audio_files",
         db_connected |-> FALSE, returns |-> FALSE]
    ELSE
        [client |-> "client", collection |-> "audio_files",
         db_connected |-> TRUE, returns |-> TRUE]

\* What the environment lets the seeding of the collection do:
\* count_documents raises, or insert_many raises after inserting a prefix.
SeedOutcomes == {"ok", "count_error", "insert_error_0", "insert_error_1", "insert_error_2"}

SeedPrefix(n) == {SAMPLE_AUDIO_DATA[i] : i \in 1..n}

\* The collection after the try block of startup_event.
SeedCollection(coll, outcome) ==
    IF outcome = "count_error" THEN coll
    ELSE IF Cardinality(coll) # 0 THEN coll
    ELSE IF outcome = "insert_error_0" THEN coll
    ELSE IF outcome = "insert_error_1" THEN coll \cup SeedPrefix(1)
    ELSE coll \cup SeedPrefix(Len(SAMPLE_AUDIO_DATA))

\* for item in SAMPLE_AUDIO_DATA: fallback_audio_data[item['language']] = item
RECURSIVE SeedFallback(_, _)
SeedFallback(d, n) ==
    IF n = 0 THEN d
    ELSE DictSet(SeedFallback(d, n - 1), SAMPLE_AUDIO_DATA[n].language, SAMPLE_AUDIO_DATA[n])

NoRequest ==
    [op |-> "none", language |-> <<>>, payload |-> NoPayload, status |-> 0,
     body |-> <<>>, calls |-> <<>>, database |-> "",
     after |-> [op |-> "other", raised |-> FALSE]]

\* Collections the database may hold when the process starts.
InitialCollections ==
    { {},
      {SAMPLE_AUDIO_DATA[i] : i \in 1..Len(SAMPLE_AUDIO_DATA)},
      {NewDocument(french, [audio_url |-> "u", text_content |-> "t"])} }

InitGlobals ==
    /\ phase = "loaded"
    /\ probe = "none"
    /\ client = "None"
    /\ collection = "None"
    /\ db_connected = FALSE
    /\ primary \in InitialCollections
    /\ fallback_audio_data = <<>>
    /\ last = NoRequest
    /\ requests = 0

Init ==
    /\ InitGlobals
    /\ tasks = <<>>

startup_event ==
    /\ phase = "loaded"
    /\ \E outcome \in ProbeOutcomes, seeding \in SeedOutcomes :
          LET c == connect_to_mongo(outcome)
          IN /\ probe' = outcome
             /\ client' = c.client
             /\ collection' = c.collection
             /\ db_connected' = c.db_connected
             /\ fallback_audio_data' = SeedFallback(fallback_audio_data, Len(SAMPLE_AUDIO_DATA))
             /\ primary' = IF c.returns THEN SeedCollection(primary, seeding) ELSE primary
    /\ phase' = "running"
    /\ last' = [NoRequest EXCEPT !.op = "startup"]
    /\ UNCHANGED <<requests, tasks>>

\* close_mongo_connection, run by shutdown_event once no request is in flight.
close_mongo_connection ==
    IF client # "None" THEN FALSE ELSE db_connected

shutdown_event ==
    /\ phase = "running"
    /\ \A t \in DOMAIN tasks : tasks[t].pc \in {"idle", "done"}
    /\ db_connected' = close_mongo_connection
    /\ phase' = "stopped"
    /\ last' = [NoRequest EXCEPT !.op = "shutdown"]
    /\ UNCHANGED <<probe, client, collection, primary, fallback_audio_data, requests, tasks>>

-----------------------------------------------------------------------------
(* Request handlers, each run to completion *)

\* One call on the collection (or the client) and whether it raised.
Call(name, raised) == [name |-> name, raised |-> raised]

Raised(calls) == \E i \in DOMAIN calls : calls[i].raised

\* (variant: the guard tests the collection only)
UsePrimaryCollectionOnly == collection # "None"

\* "if db_connected and collection:"
UsePrimary == db_connected /\ collection # "None"

\* The state a handler starts from, as the result it returns when it changes nothing.
Handler(op, language, payload) ==
    [op |-> op, language |-> language, payload |-> payload, status |-> 0,
     body |-> <<>>, calls |-> <<>>, database |-> "",
     primary |-> primary, fallback |-> fallback_audio_data, db_connected |-> db_connected]

\* GET /api/audio.  raises: the cursor raises; order: the order of the dict's values.
get_all_audio(raises, order) ==
    LET h == Handler("list", <<>>, NoPayload)
        items == [i \in 1..Len(order) |-> fallback_audio_data[order[i]]]
    IN IF UsePrimary /\ ~raises THEN
           [h EXCEPT !.status = 200, !.calls = <<Call("find", FALSE)>>,
                     !.body = AudioFiles(find_sorted(primary))]
       ELSE
           [h EXCEPT !.status = 200,
                     !.calls = IF UsePrimary THEN <<Call("find", TRUE)>> ELSE <<>>,
                     !.body = sorted(AudioFiles(items))]

\* GET /api/audio/{language}.  raises: find_one raises.
get_audio_by_language(language, raises) ==
    LET h == Handler("get", language, NoPayload)
        found == find_one(primary, language)
        calls == IF UsePrimary THEN <<Call("find_one", raises)>> ELSE <<>>
    IN IF UsePrimary /\ ~raises /\ found # {} THEN
           [h EXCEPT !.status = 200, !.calls = calls,
                     !.body = <<AudioFile(CHOOSE d \in found : TRUE)>>]
       ELSE IF language \in DOMAIN fallback_audio_data THEN
           [h EXCEPT !.status = 200, !.calls = calls,
                     !.body = <<AudioFile(fallback_audio_data[language])>>]
       ELSE
           [h EXCEPT !.status = 404, !.calls = calls]

\* (variant: the fallback block stores the document without the existence test)
create_fallback_overwrite(h) ==
    LET document == NewFallbackDocument(h.language, h.payload)
    IN [h EXCEPT !.status = 200, !.body = <<AudioFile(document)>>,
                 !.fallback = DictSet(h.fallback, h.language, document)]

\* The fallback block of create_audio_file, entered from the state h.
create_fallback(h) ==
    IF h.language \in DOMAIN h.fallback THEN [h EXCEPT !.status = 400]
    ELSE LET document == NewFallbackDocument(h.language, h.payload)
         IN [h EXCEPT !.status = 200, !.body = <<AudioFile(document)>>,
                      !.fallback = DictSet(h.fallback, h.language, document)]

\* What a call that writes may do: succeed, raise before the write reached
\* the collection, or raise after it did.  Without a connection no call is
\* made, so there is nothing to choose.
WriteOutcomes == IF db_connected THEN {"ok", "raise", "raise_applied"} ELSE {"ok"}

\* Whether a call that reads raises.
Raises == IF db_connected THEN BOOLEAN ELSE {FALSE}

\* POST /api/audio.  e1: find_one raises; e2: the outcome of insert_one.
create_audio_file(language, payload, e1, e2) ==
    LET h == Handler("create", language, payload)
        document == NewDocument(language, payload)
    IN IF ~UsePrimary THEN create_fallback(h)
       ELSE IF e1 THEN create_fallback([h EXCEPT !.calls = <<Call("find_one", TRUE)>>])
       ELSE IF find_one(primary, language) # {} THEN
           [h EXCEPT !.status = 400, !.calls = <<Call("find_one", FALSE)>>]
       ELSE IF e2 = "ok" /\ ~DuplicateKey(primary, language) THEN
           [h EXCEPT !.status = 200, !.body = <<AudioFile(document)>>,
                     !.calls = <<Call("find_one", FALSE), Call("insert_one", FALSE)>>,
                     !.primary = insert_one(primary, document)]
       ELSE
           create_fallback(
               [h EXCEPT !.calls = <<Call("find_one", FALSE), Call("insert_one", TRUE)>>,
                         !.primary = IF e2 = "raise_applied" /\ ~DuplicateKey(primary, language)
                                     THEN insert_one(primary, document) ELSE primary])

\* The fallback block of update_audio_file, entered from the state h.
update_fallback(h) ==
    IF h.language \notin DOMAIN h.fallback THEN [h EXCEPT !.status = 404]
    ELSE LET d == DictUpdateItem(h.fallback, h.language, h.payload)
         IN [h EXCEPT !.status = 200, !.body = <<AudioFile(d[h.language])>>,
                      !.fallback = d]

\* PUT /api/audio/{language}.  e1: the outcome of update_one; e2: find_one raises.
update_audio_file(language, payload, e1, e2) ==
    LET h == Handler("update", language, payload)
        updated == update_one(primary, language, payload)
    IN IF ~UsePrimary THEN update_fallback(h)
       ELSE IF e1 # "ok" THEN
           update_fallback(
               [h EXCEPT !.calls = <<Call("update_one", TRUE)>>,
                         !.primary = IF e1 = "raise_applied" THEN updated ELSE primary])
       ELSE IF matched_count(primary, language) = 0 THEN
           [h EXCEPT !.status = 404, !.calls = <<Call("update_one", FALSE)>>]
       ELSE IF e2 THEN
           update_fallback(
               [h EXCEPT !.calls = <<Call("update_one", FALSE), Call("find_one", TRUE)>>,
                         !.primary = updated])
       ELSE IF find_one(updated, language) = {} THEN
           \* updated_document is None: .get raises AttributeError, caught as Exception
           update_fallback(
               [h EXCEPT !.calls = <<Call("update_one", FALSE), Call("find_one", FALSE)>>,
                         !.primary = updated])
       ELSE
           [h EXCEPT !.status = 200,
                     !.calls = <<Call("update_one", FALSE), Call("find_one", FALSE)>>,
                     !.primary = updated,
                     !.body = <<AudioFile(CHOOSE d \in find_one(updated, language) : TRUE)>>]

\* The fallback block of delete_audio_file, entered from the state h.
delete_fallback(h) ==
    IF h.language \notin DOMAIN h.fallback THEN [h EXCEPT !.status = 404]
    ELSE [h EXCEPT !.status = 200, !.fallback = DictDel(h.fallback, h.language)]

\* (variant: an exception of delete_one is not caught and becomes a 500)
delete_audio_file_uncaught(language, e1) ==
    LET h == Handler("delete", language, NoPayload)
    IN IF ~UsePrimary THEN delete_fallback(h)
       ELSE IF e1 # "ok" THEN
           [h EXCEPT !.status = 500, !.calls = <<Call("delete_one", TRUE)>>,
                     !.primary = IF e1 = "raise_applied"
                                 THEN delete_one(primary, language) ELSE primary]
       ELSE IF deleted_count(primary, language) = 0 THEN
           [h EXCEPT !.status = 404, !.calls = <<Call("delete_one", FALSE)>>]
       ELSE
           [h EXCEPT !.status = 200, !.calls = <<Call("delete_one", FALSE)>>,
                     !.primary = delete_one(primary, language)]

\* DELETE /api/audio/{language}.  e1: the outcome of delete_one.
delete_audio_file(language, e1) ==
    LET h == Handler("delete", language, NoPayload)
    IN IF ~UsePrimary THEN delete_fallback(h)
       ELSE IF e1 # "ok" THEN
           delete_fallback(
               [h EXCEPT !.calls = <<Call("delete_one", TRUE)>>,
                         !.primary = IF e1 = "raise_applied"
                                     THEN delete_one(primary, language) ELSE primary])
       ELSE IF deleted_count(primary, language) = 0 THEN
           [h EXCEPT !.status = 404, !.calls = <<Call("delete_one", FALSE)>>]
       ELSE
           [h EXCEPT !.status = 200, !.calls = <<Call("delete_one", FALSE)>>,
                     !.primary = delete_one(primary, language)]

\* (variant: db_status is not set in the except branch)
health_check_stale(raises) ==
    LET h == Handler("health", <<>>, NoPayload)
        db_status == IF db_connected THEN "connected" ELSE "fallback_mode"
    IN IF db_connected /\ client # "None" THEN
           [h EXCEPT !.status = 200, !.calls = <<Call("ping", raises)>>,
                     !.database = db_status]
       ELSE [h EXCEPT !.status = 200, !.database = db_status]

\* (variant: a failed ping marks the database as disconnected)
health_check_marks_down(raises) ==
    LET h == Handler("health", <<>>, NoPayload)
        db_status == IF db_connected THEN "connected" ELSE "fallback_mode"
    IN IF db_connected /\ client # "None" THEN
           [h EXCEPT !.status = 200, !.calls = <<Call("ping", raises)>>,
                     !.database = IF raises THEN "error" ELSE "connected",
                     !.db_connected = ~raises]
       ELSE [h EXCEPT !.status = 200, !.database = db_status]

\* GET /health.  raises: the ping raises.
health_check(raises) ==
    LET h == Handler("health", <<>>, NoPayload)
        db_status == IF db_connected THEN "connected" ELSE "fallback_mode"
    IN IF db_connected /\ client # "None" THEN
           [h EXCEPT !.status = 200, !.calls = <<Call("ping", raises)>>,
                     !.database = IF raises THEN "error" ELSE "connected"]
       ELSE [h EXCEPT !.status = 200, !.database = db_status]

\* The previous request, when it answered 200 to a create or a delete of
\* the language this one is about (history, read by the properties only).
After(h) ==
    IF last.op \in {"create", "delete"} /\ last.status = 200 /\ last.language = h.language
    THEN [op |-> last.op, raised |-> Raised(last.calls)]
    ELSE [op |-> "other", raised |-> FALSE]

\* The response is sent and the handler's writes to the globals and to the
\* collection are in effect.
Respond(h) ==
    /\ primary' = h.primary
    /\ fallback_audio_data' = h.fallback
    /\ db_connected' = h.db_connected
    /\ last' = [op |-> h.op, language |-> h.language, payload |-> h.payload,
                status |-> h.status, body |-> h.body, calls |-> h.calls,
                database |-> h.database, after |-> After(h)]
    /\ requests' = requests + 1
    /\ UNCHANGED <<phase, probe, client, collection, tasks>>

GetAllAudio ==
    /\ phase = "running"
    /\ requests < MaxRequests
    /\ \E raises \in Raises, order \in Orderings(DOMAIN fallback_audio_data) :
          Respond(get_all_audio(raises, order))

GetAudioByLanguage ==
    /\ phase = "running"
    /\ requests < MaxRequests
    /\ \E language \in Languages, raises \in Raises :
          Respond(get_audio_by_language(language, raises))

CreateAudioFile ==
    /\ phase = "running"
    /\ requests < MaxRequests
    /\ \E language \in Languages, payload \in Payloads, e1 \in Raises :
          \E e2 \in (IF e1 THEN {"ok"} ELSE WriteOutcomes) :
             Respond(create_audio_file(language, RequestBody(language, payload), e1, e2))

UpdateAudioFile ==
    /\ phase = "running"
    /\ requests < MaxRequests
    /\ \E language \in Languages, body_language \in BodyLanguages,
          payload \in Payloads, e1 \in WriteOutcomes :
          \E e2 \in (IF e1 = "ok" THEN Raises ELSE {FALSE}) :
             Respond(update_audio_file(language, RequestBody(body_language, payload), e1, e2))

DeleteAudioFile ==
    /\ phase = "running"
    /\ requests < MaxRequests
    /\ \E language \in Languages, e1 \in WriteOutcomes :
          Respond(delete_audio_file(language, e1))

HealthCheck ==
    /\ phase = "running"
    /\ requests < MaxRequests
    /\ \E raises \in Raises : Respond(health_check(raises))

Next ==
    \/ startup_event
    \/ shutdown_event
    \/ GetAllAudio
    \/ GetAudioByLanguage
    \/ CreateAudioFile
    \/ UpdateAudioFile
    \/ DeleteAudioFile
    \/ HealthCheck

Spec == Init /\ [][Next]_vars

-----------------------------------------------------------------------------
(* Interleaved executions of create_audio_file: a handler runs without     *)
(* interruption between two awaits, and each await of a call on the        *)
(* collection is one step (the call takes effect and the handler resumes). *)
(* No call raises here except insert_one, and only for a duplicate key.    *)

IdleTask ==
    [pc |-> "idle", language |-> <<>>, payload |-> NoPayload, status |-> 0,
     absent |-> FALSE]

InitConc ==
    /\ InitGlobals
    /\ tasks = [t \in 1..NumTasks |-> IdleTask]

\* The request arrives.  Not connected: the fallback block runs at once.
\* Connected: the handler awaits find_one.
CreateBegin(t) ==
    /\ phase = "running"
    /\ tasks[t].pc = "idle"
    /\ \E language \in Languages, body \in Payloads :
          LET payload == RequestBody(language, body)
              absent == /\ find_one(primary, language) = {}
                        /\ language \notin DOMAIN fallback_audio_data
              h == create_fallback(Handler("create", language, payload))
          IN IF UsePrimary THEN
                 /\ tasks' = [tasks EXCEPT ![t] =
                        [pc |-> "find_one", language |-> language, payload |-> payload,
                         status |-> 0, absent |-> absent]]
                 /\ UNCHANGED fallback_audio_data
             ELSE
                 /\ tasks' = [tasks EXCEPT ![t] =
                        [pc |-> "done", language |-> language, payload |-> payload,
                         status |-> h.status, absent |-> absent]]
                 /\ fallback_audio_data' = h.fallback
    /\ UNCHANGED <<phase, probe, client, collection, db_connected, primary, last, requests>>

\* find_one returns: 400 when a document exists, otherwise the handler
\* awaits insert_one.
CreateFindOne(t) ==
    /\ tasks[t].pc = "find_one"
    /\ tasks' = [tasks EXCEPT ![t] =
           IF find_one(primary, tasks[t].language) # {}
           THEN [@ EXCEPT !.pc = "done", !.status = 400]
           ELSE [@ EXCEPT !.pc = "insert_one"]]
    /\ UNCHANGED <<phase, probe, client, collection, db_connected, primary,
                   fallback_audio_data, last, requests>>

\* insert_one returns (200) or raises DuplicateKeyError, which the handler
\* catches as Exception and answers from the fallback block.
CreateInsertOne(t) ==
    /\ tasks[t].pc = "insert_one"
    /\ LET language == tasks[t].language
           payload == tasks[t].payload
           h == create_fallback(Handler("create", language, payload))
       IN IF DuplicateKey(primary, language) THEN
              /\ tasks' = [tasks EXCEPT ![t] = [@ EXCEPT !.pc = "done", !.status = h.status]]
              /\ fallback_audio_data' = h.fallback
              /\ UNCHANGED primary
          ELSE
              /\ tasks' = [tasks EXCEPT ![t] = [@ EXCEPT !.pc = "done", !.status = 200]]
              /\ primary' = insert_one(primary, NewDocument(language, payload))
              /\ UNCHANGED fallback_audio_data
    /\ UNCHANGED <<phase, probe, client, collection, db_connected, last, requests>>

NextConc ==
    \/ startup_event
    \/ \E t \in 1..NumTasks : CreateBegin(t)
    \/ \E t \in 1..NumTasks : CreateFindOne(t)
    \/ \E t \in 1..NumTasks : CreateInsertOne(t)

SpecConc == InitConc /\ [][NextConc]_vars

-----------------------------------------------------------------------------
(* Startup await by await: phase is "ping" while connect_to_mongo awaits   *)
(* wait_for(ping, timeout=30.0), "create_index" while it awaits            *)
(* create_index, and "seeding" while startup_event awaits count_documents  *)
(* and insert_many.  Requests are served once phase is "running".          *)

\* connect_to_mongo returns False after the given failure; startup_event
\* logs the fallback mode and ends.
ConnectFails(outcome) ==
    LET c == connect_to_mongo(outcome)
    IN /\ probe' = outcome
       /\ client' = c.client
       /\ collection' = c.collection
       /\ db_connected' = c.db_connected
       /\ phase' = "running"
       /\ last' = [NoRequest EXCEPT !.op = "startup"]

\* startup_event begins: the fallback map is seeded and connect_to_mongo
\* runs up to its first await (or returns before it).
StartupBegin ==
    /\ phase = "loaded"
    /\ fallback_audio_data' = SeedFallback(fallback_audio_data, Len(SAMPLE_AUDIO_DATA))
    /\ \E outcome \in {"no_url", "client_error", "awaits_ping"} :
          IF outcome = "awaits_ping"
          THEN /\ client' = "client"
               /\ phase' = "ping"
               /\ UNCHANGED <<probe, collection, db_connected, last>>
          ELSE ConnectFails(outcome)
    /\ UNCHANGED <<primary, requests, tasks>>

\* The ping returns or raises before the timeout.
PingAnswers ==
    /\ phase = "ping"
    /\ \E ok \in BOOLEAN :
          IF ok
          THEN /\ collection' = "audio_files"
               /\ db_connected' = TRUE
               /\ phase' = "create_index"
               /\ UNCHANGED <<probe, client, last>>
          ELSE ConnectFails("ping_error")
    /\ UNCHANGED <<primary, fallback_audio_data, requests, tasks>>

\* The 30 s of wait_for elapse: the ping is cancelled, asyncio.TimeoutError.
PingTimeout ==
    /\ phase = "ping"
    /\ ConnectFails("ping_timeout")
    /\ UNCHANGED <<primary, fallback_audio_data, requests, tasks>>

\* create_index returns (connect_to_mongo returns True) or raises.
CreateIndexReturns ==
    /\ phase = "create_index"
    /\ \E ok \in BOOLEAN :
          IF ok
          THEN LET c == connect_to_mongo("ok")
               IN /\ probe' = "ok"
                  /\ client' = c.client
                  /\ collection' = c.collection
                  /\ db_connected' = c.db_connected
                  /\ phase' = "seeding"
                  /\ UNCHANGED last
          ELSE ConnectFails("index_error")
    /\ UNCHANGED <<primary, fallback_audio_data, requests, tasks>>

\* The try block of startup_event ends, normally or in its except branch.
SeedReturns ==
    /\ phase = "seeding"
    /\ \E seeding \in SeedOutcomes : primary' = SeedCollection(primary, seeding)
    /\ phase' = "running"
    /\ last' = [NoRequest EXCEPT !.op = "startup"]
    /\ UNCHANGED <<probe, client, collection, db_connected, fallback_audio_data,
                   requests, tasks>>

NextStartup ==
    \/ StartupBegin
    \/ PingAnswers
    \/ PingTimeout
    \/ CreateIndexReturns
    \/ SeedReturns
    \/ GetAllAudio
    \/ GetAudioByLanguage
    \/ HealthCheck

\* The server runs startup_event; the timer of wait_for fires; the driver's
\* own timeouts (socketTimeoutMS, serverSelectionTimeoutMS) end the other
\* awaited calls.  Nothing makes the ping itself answer.
SpecStartup ==
    /\ Init
    /\ [][NextStartup]_vars
    /\ WF_vars(StartupBegin)
    /\ WF_vars(PingTimeout)
    /\ WF_vars(CreateIndexReturns)
    /\ WF_vars(SeedReturns)

-----------------------------------------------------------------------------
(* Properties *)

\* A step in which one request is handled from arrival to response.
RequestStep == requests' = requests + 1

\* This step handles a request for the language of the previous request.
NextOnSameLanguage(op1, op2) ==
    /\ RequestStep
    /\ last.op = op1 /\ last.status = 200
    /\ last'.op = op2 /\ last'.language = last.language

\* C1 (as stated): a get(L) handled right after a create(L, ...) that
\* answered 200 answers 200 with the record create returned, whether or not
\* the collection is connected and whether or not its calls raise.
C1_RoundTripAlways ==
    [][NextOnSameLanguage("create", "get")
         => (last'.status = 200 /\ last'.body = last.body)]_vars

\* C1 (amended): the round trip holds when both requests are served by the
\* same store: db_connected is false, or it is true and no call on the
\* collection raises in either request, or a call raises in each of them.
C1_RoundTrip ==
    [][(/\ NextOnSameLanguage("create", "get")
        /\ \/ ~db_connected
           \/ Raised(last.calls) = Raised(last'.calls))
         => (last'.status = 200 /\ last'.body = last.body)]_vars

C1_Witness ==
    /\ last.op = "get" /\ last.status = 200
    /\ last.after = [op |-> "create", raised |-> FALSE]
    /\ last.calls = <<Call("find_one", FALSE)>>
    /\ last.body[1].language = french

\* C2: a get(L) handled right after a delete(L) that answered 200 answers
\* 404 (stated here for the requests in which no call on the collection raises).
C2_DeleteThenGet ==
    [][(/\ NextOnSameLanguage("delete", "get")
        /\ ~Raised(last.calls) /\ ~Raised(last'.calls))
         => last'.status = 404]_vars

\* The documents of coll and the items of the dict d that are about language.
InCollection(coll, language) == find_one(coll, language) # {}
InDict(d, language) == language \in DOMAIN d

\* C3 (as stated): a create for a language that has a record in the primary
\* store (db_connected true) or in the fallback map (db_connected false)
\* answers 400 and leaves both stores as they were.
C3_DuplicateCreateAlways ==
    [][(/\ RequestStep /\ last'.op = "create"
        /\ IF db_connected THEN InCollection(primary, last'.language)
                           ELSE InDict(fallback_audio_data, last'.language))
         => (/\ last'.status = 400
             /\ primary' = primary
             /\ fallback_audio_data' = fallback_audio_data)]_vars

\* C3 (amended): a create for a language that has a record in the store
\* that answers the existence test (the collection when db_connected is true
\* and find_one does not raise; the fallback map when db_connected is false
\* or find_one raises) answers 400 and leaves both stores as they were.
C3_DuplicateCreate ==
    [][(/\ RequestStep /\ last'.op = "create"
        /\ IF db_connected /\ ~last'.calls[1].raised
           THEN InCollection(primary, last'.language)
           ELSE InDict(fallback_audio_data, last'.language))
         => (/\ last'.status = 400
             /\ primary' = primary
             /\ fallback_audio_data' = fallback_audio_data)]_vars

C3_Witness ==
    /\ last.op = "create" /\ last.status = 400
    /\ db_connected
    /\ last.calls = <<Call("find_one", TRUE)>>
    /\ ~InCollection(primary, last.language)

\* C4: of two create requests for the same language that were both received
\* while the language was in neither store and db_connected was true, one
\* answers 200 and the other 400, and afterwards one record for the language
\* exists across the collection and the fallback map.
C4_OneCreateWins ==
    \A i, j \in DOMAIN tasks :
        (/\ i # j /\ db_connected
         /\ tasks[i].pc = "done" /\ tasks[j].pc = "done"
         /\ tasks[i].language = tasks[j].language
         /\ tasks[i].absent /\ tasks[j].absent)
        => (/\ {tasks[i].status, tasks[j].status} = {200, 400}
            /\ InCollection(primary, tasks[i].language)
                 # InDict(fallback_audio_data, tasks[i].language))

\* C5: with db_connected true and no call raising, a get for a language
\* that is not in the collection answers 404, whatever the fallback map holds.
C5_PrimaryFinal ==
    [][(/\ RequestStep /\ last'.op = "get"
        /\ db_connected /\ ~Raised(last'.calls)
        /\ ~InCollection(primary, last'.language))
         => last'.status = 404]_vars

\* The requests that read or write records.
CrudOps == {"list", "get", "create", "update", "delete"}

\* What the dict d alone answers to a request (status, body) and the dict
\* d2 it becomes: 400 for a create of a key it has, 404 for a get, update or
\* delete of a key it lacks, 200 otherwise.
FallbackAnswer(op, language, payload, d, status, body, d2) ==
    LET has == language \in DOMAIN d
        others == (DOMAIN d) \ {language}
    IN CASE op = "list" ->
              /\ status = 200 /\ d2 = d
              /\ Len(body) = Cardinality(DOMAIN d)
              /\ {body[i] : i \in DOMAIN body} = {d[k] : k \in DOMAIN d}
         [] op = "get" ->
              /\ d2 = d
              /\ IF has THEN status = 200 /\ body = <<d[language]>> ELSE status = 404
         [] op = "create" ->
              IF has THEN status = 400 /\ d2 = d
              ELSE /\ status = 200
                   /\ DOMAIN d2 = (DOMAIN d) \cup {language}
                   /\ \A k \in DOMAIN d : d2[k] = d[k]
                   /\ d2[language] = [id |-> language \o AudioSuffix, language |-> language,
                                      audio_url |-> payload.audio_url,
                                      text_content |-> payload.text_content]
                   /\ body = <<d2[language]>>
         [] op = "update" ->
              IF ~has THEN status = 404 /\ d2 = d
              ELSE /\ status = 200
                   /\ DOMAIN d2 = DOMAIN d
                   /\ \A k \in others : d2[k] = d[k]
                   /\ d2[language] = [id |-> d[language].id, language |-> d[language].language,
                                      audio_url |-> payload.audio_url,
                                      text_content |-> payload.text_content]
                   /\ body = <<d2[language]>>
         [] op = "delete" ->
              IF ~has THEN status = 404 /\ d2 = d
              ELSE /\ status = 200
                   /\ DOMAIN d2 = others
                   /\ \A k \in others : d2[k] = d[k]

\* C6: when db_connected is true and a call on the collection raises during
\* list, get, create, update or delete, the response (200, 400 or 404, never
\* 500) and the fallback map afterwards are those the fallback map alone
\* gives for that request.
C6_ErrorsRecovered ==
    [][(/\ RequestStep /\ last'.op \in CrudOps
        /\ db_connected /\ Raised(last'.calls))
         => (/\ last'.status \in {200, 400, 404}
             /\ FallbackAnswer(last'.op, last'.language, last'.payload,
                               fallback_audio_data, last'.status, last'.body,
                               fallback_audio_data'))]_vars

C6_Witness ==
    /\ last.op = "update" /\ last.status = 200
    /\ db_connected
    /\ last.calls = <<Call("update_one", FALSE), Call("find_one", TRUE)>>

\* C7: when connect_to_mongo fails (no URL, client or ping error, ping
\* timeout, create_index error), db_connected is false once startup is over,
\* every request is answered by the fallback map alone without a call on the
\* collection, and /health reports fallback_mode.
C7_FallbackMode ==
    [][(probe' \in ProbeOutcomes \ {"ok"} /\ phase' = "running")
         => (/\ ~db_connected'
             /\ RequestStep =>
                  (/\ last'.calls = <<>>
                   /\ primary' = primary
                   /\ last'.op \in CrudOps =>
                        FallbackAnswer(last'.op, last'.language, last'.payload,
                                       fallback_audio_data, last'.status, last'.body,
                                       fallback_audio_data')
                   /\ last'.op = "health" =>
                        (last'.status = 200 /\ last'.database = "fallback_mode")))]_vars

C7_Witness ==
    /\ probe = "index_error" /\ phase = "running"
    /\ last.op = "delete" /\ last.status = 200 /\ last.calls = <<>>
    /\ last.after = [op |-> "create", raised |-> FALSE]

\* C8: the body of every list response holds each record of the store that
\* served it (the collection when db_connected is true and the cursor does
\* not raise, the fallback map otherwise) once, in ascending order of language.
C8_ListOrdered ==
    last.op = "list" =>
        LET served == IF db_connected /\ ~Raised(last.calls)
                      THEN {AudioFile(d) : d \in primary}
                      ELSE {fallback_audio_data[k] : k \in DOMAIN fallback_audio_data}
            b == last.body
        IN /\ last.status = 200
           /\ \A i \in 1..(Len(b) - 1) : StrLess(b[i].language, b[i + 1].language)
           /\ {b[i] : i \in DOMAIN b} = served
           /\ Len(b) = Cardinality(served)

C8_Witness ==
    /\ last.op = "list" /\ Raised(last.calls)
    /\ Len(last.body) = 3
    /\ Cardinality(primary) < 3

\* C9: an update for a language that has no record in the store serving the
\* request (the collection when db_connected is true and its calls succeed,
\* the fallback map otherwise) answers 404 and leaves both stores as they
\* were (stated here for the requests whose update_one call returns).
C9_UpdateAbsent ==
    [][(/\ RequestStep /\ last'.op = "update"
        /\ last'.calls # <<Call("update_one", TRUE)>>
        /\ IF db_connected /\ ~Raised(last'.calls)
           THEN ~InCollection(primary, last'.language)
           ELSE ~InDict(fallback_audio_data, last'.language))
         => (/\ last'.status = 404
             /\ primary' = primary
             /\ fallback_audio_data' = fallback_audio_data)]_vars

\* C10: no request changes db_connected, whether or not its calls on the
\* collection raise: between the end of startup and shutdown it keeps the
\* value startup left.
C10_FlagUntouched ==
    [][(phase = "running" /\ phase' = "running") => db_connected' = db_connected]_vars

C10_Witness ==
    /\ phase = "running" /\ db_connected
    /\ last.op = "health" /\ last.database = "error"
    /\ requests = MaxRequests

\* The record old with the two mutable fields taken from the request body.
Updated(old, payload) ==
    [id |-> old.id, language |-> old.language,
     audio_url |-> payload.audio_url, text_content |-> payload.text_content]

\* C11: an update(L, body) that answers 200 sets audio_url and text_content
\* of L's record in the store that served it (the collection when
\* db_connected is true and no call raises, the fallback map otherwise) to
\* the values of the body, keeps that record's id and language and every
\* other record of that store, whatever the language field of the body, and
\* returns the updated record, whose language is L.
C11_UpdateTwoFields ==
    [][(RequestStep /\ last'.op = "update" /\ last'.status = 200)
         => LET L == last'.language
                body == last'.payload
            IN /\ Len(last'.body) = 1
               /\ last'.body[1].language = L
               /\ IF db_connected /\ ~Raised(last'.calls)
                  THEN \E old \in find_one(primary, L) :
                          /\ primary' = (primary \ {old}) \cup {Updated(old, body)}
                          /\ last'.body[1] = Updated(old, body)
                          /\ fallback_audio_data' = fallback_audio_data
                  ELSE /\ L \in DOMAIN fallback_audio_data
                       /\ DOMAIN fallback_audio_data' = DOMAIN fallback_audio_data
                       /\ \A k \in (DOMAIN fallback_audio_data) \ {L} :
                             fallback_audio_data'[k] = fallback_audio_data[k]
                       /\ fallback_audio_data'[L] = Updated(fallback_audio_data[L], body)
                       /\ last'.body[1] = Updated(fallback_audio_data[L], body)]_vars

C11_Witness ==
    /\ last.op = "update" /\ last.status = 200
    /\ db_connected /\ ~Raised(last.calls)
    /\ last.language = english /\ last.payload.language = french
    /\ last.body[1].audio_url = "u2"
    /\ Cardinality(primary) = 2

\* C12: every document of the collection and every item of the fallback
\* map has id = language followed by "_audio", every item is stored under
\* its own language, and the record a create returns has the id derived
\* from the language of the request.
C12_IdDerived ==
    /\ \A d \in primary : d.id = d.language \o AudioSuffix
    /\ \A k \in DOMAIN fallback_audio_data :
          /\ fallback_audio_data[k].language = k
          /\ fallback_audio_data[k].id = k \o AudioSuffix
    /\ (last.op = "create" /\ last.status = 200)
          => last.body[1].id = last.language \o AudioSuffix

C12_Witness ==
    /\ last.op = "create" /\ last.status = 200 /\ last.language = french
    /\ Raised(last.calls)
    /\ InDict(fallback_audio_data, french)
    /\ InCollection(primary, english)
    /\ requests = 3

\* The seed records as a set.
SeedRecords == {SAMPLE_AUDIO_DATA[i] : i \in DOMAIN SAMPLE_AUDIO_DATA}

\* C13: when startup is over the fallback map holds the two seed records,
\* whatever connect_to_mongo did; and if db_connected is true the collection
\* is not empty: it holds what it held before if that was not empty, and
\* the two seed records if it was.
C13_StartupSeeding ==
    [][(phase = "loaded" /\ phase' = "running")
         => (/\ DOMAIN fallback_audio_data' = {arabic, english}
             /\ {fallback_audio_data'[k] : k \in DOMAIN fallback_audio_data'} = SeedRecords
             /\ db_connected' =>
                  (/\ primary' # {}
                   /\ primary' = IF primary = {} THEN SeedRecords ELSE primary))]_vars

\* C14: startup always ends, also when the ping never answers (the timeout
\* ends it as a failure); the ping is awaited once per startup (only from
\* the beginning of startup, which is never re-entered); and startup ends
\* with db_connected true only after the ping and create_index succeeded.
C14_StartupTerminates ==
    /\ <>(phase = "running")
    /\ [][/\ phase' = "loaded" => phase = "loaded"
          /\ phase' = "ping" => phase \in {"loaded", "ping"}
          /\ phase' = "create_index" => phase \in {"ping", "create_index"}
          /\ phase' = "seeding" => phase \in {"create_index", "seeding"}
          /\ (phase # "running" /\ phase' = "running" /\ db_connected')
                => phase = "seeding"
          /\ (phase = "ping" /\ probe' = "ping_timeout") => ~db_connected']_vars

C14_Witness ==
    /\ phase = "running" /\ probe = "ping_timeout"
    /\ client = "client" /\ collection = "None" /\ ~db_connected
    /\ last.op = "health" /\ last.database = "fallback_mode"

\* C15: /health answers 200; it reports fallback_mode exactly when
\* db_connected is false (and then pings nothing); when db_connected is true
\* it pings once and reports connected if the ping returns, error if it
\* raises; it changes neither db_connected nor either store.
C15_HealthMapping ==
    [][(RequestStep /\ last'.op = "health")
         => (/\ last'.status = 200
             /\ (last'.database = "fallback_mode") <=> ~db_connected
             /\ ~db_connected => last'.calls = <<>>
             /\ db_connected =>
                  (/\ Len(last'.calls) = 1 /\ last'.calls[1].name = "ping"
                   /\ last'.database = IF last'.calls[1].raised THEN "error" ELSE "connected")
             /\ db_connected' = db_connected
             /\ primary' = primary
             /\ fallback_audio_data' = fallback_audio_data)]_vars

C15_Witness ==
    /\ last.op = "health" /\ last.status = 200 /\ last.database = "error"
    /\ last.calls = <<Call("ping", TRUE)>>
    /\ db_connected /\ requests = 1

\* C16: with db_connected false a create runs from its arrival to its
\* response without a suspension point; of two creates for the same
\* language, the first of which found it absent, one answers 200 and the
\* other 400, and the map holds the record of the one that answered 200.
C16_FallbackAtomic ==
    (phase = "running" /\ ~db_connected) =>
        /\ \A t \in DOMAIN tasks : tasks[t].pc \in {"idle", "done"}
        /\ \A i, j \in DOMAIN tasks :
              (/\ i # j
               /\ tasks[i].pc = "done" /\ tasks[j].pc = "done"
               /\ tasks[i].language = tasks[j].language
               /\ tasks[i].status = 200)
              => (/\ tasks[j].status = 400
                  /\ InDict(fallback_audio_data, tasks[i].language)
                  /\ fallback_audio_data[tasks[i].language] =
                        [id |-> tasks[i].language \o AudioSuffix,
                         language |-> tasks[i].language,
                         audio_url |-> tasks[i].payload.audio_url,
                         text_content |-> tasks[i].payload.text_content])

C16_Witness ==
    /\ phase = "running" /\ ~db_connected
    /\ \E i, j \in DOMAIN tasks :
          /\ tasks[i].pc = "done" /\ tasks[j].pc = "done"
          /\ tasks[i].language = french /\ tasks[j].language = french
          /\ tasks[i].status = 200 /\ tasks[j].status = 400
          /\ tasks[i].payload # tasks[j].payload
          /\ fallback_audio_data[french].audio_url = tasks[i].payload.audio_url

\* The create, update and delete requests.
WriteOps == {"create", "update", "delete"}

\* No call of the request raised, except possibly a find_one.
OnlyFindOneRaised(calls) ==
    \A i \in DOMAIN calls : calls[i].raised => calls[i].name = "find_one"

\* C17: a create, update or delete that answers 400 or 404 leaves the
\* collection and the fallback map as they were (stated here for the
\* requests in which no writing call raises).
C17_ErrorsNoEffect ==
    [][(/\ RequestStep /\ last'.op \in WriteOps
        /\ last'.status \in {400, 404}
        /\ OnlyFindOneRaised(last'.calls))
         => (primary' = primary /\ fallback_audio_data' = fallback_audio_data)]_vars

\* C18: a create, update or delete changes at most one of the collection
\* and the fallback map (stated here for the requests in which no writing
\* call raises).
C18_OneStorePerRequest ==
    [][(/\ RequestStep /\ last'.op \in WriteOps
        /\ OnlyFindOneRaised(last'.calls))
         => (primary' = primary \/ fallback_audio_data' = fallback_audio_data)]_vars

====
